---- MODULE Spec2Model ----
(***************************************************************************)
(* Model of src/server.js: an Express server with an in-memory credential  *)
(* store (users), cookie sessions, a multer disk upload sink and two       *)
(* access gates (authRequired, adminRequired).                             *)
(*                                                                         *)
(* Handlers that run synchronously inside one callback (signup, login,     *)
(* promote, the gates) are one atomic action each.  The upload is split at *)
(* the points where Node yields to other requests: the gate together with  *)
(* the file name generation, the end of the file stream, and the final     *)
(* response.                                                               *)
(***************************************************************************)
EXTENDS Integers, Sequences, FiniteSets, TLC

\* ---------------------------------------------------------------- bounds
\* Date.now() takes the values 0..MaxTime.
MaxTime == 1

\* ------------------------------------------------------------ input sets
\* JavaScript `undefined` (a field missing from the request body).
undefined == "<undefined>"

\* The browsers (cookie jars) that talk to the server.
Clients == {"c1", "c2"}

\* Keys that `users`, a plain object literal, inherits: users[k] finds them
\* although nobody signed up under them.  users['__proto__'] is
\* Object.prototype itself ('constructor', 'toString', ... are further such
\* keys, each an object that hangs below Object.prototype).
InheritedKeys == {"__proto__"}

\* Usernames a request body may carry.
Usernames == {"admin", "alice", "", undefined} \cup InheritedKeys

\* Passwords a request body may carry.
Passwords == {"adminpass", "pw1", "", undefined}

\* Original file names, as sequences of characters; " " is the whitespace
\* that /\s+/ matches.
OriginalNames == {<<"a", " ", " ", "b">>, <<"a", "_", "b">>}

\* A file name left in uploadsDir by an earlier run of the server (the
\* directory is only created when it does not exist).
OldFile == <<-1, <<"o", "l", "d">>>>

\* File bodies, and their sizes in GiB.
Contents == {"v1", "v2", "huge"}
Size(content) == IF content = "huge" THEN 3 ELSE 1

\* limits.fileSize of the multer instance, in GiB.
fileSize == 2

\* Content of a file that was opened for writing and holds no byte yet.
Empty == "<empty>"

VARIABLES
  users,     \* own properties of `users`: username -> [password, role]
  polluted,  \* inherited objects that were given an own `role` = 'admin'
  sessions,  \* client -> {} (no req.session.user) or {[username, role]}
  clock,     \* Date.now()
  up,        \* client -> the upload request of that client that is in flight
  dir,       \* uploadsDir: stored name -> content
  stored,    \* public paths returned by the uploads that were answered 200
  promoted,  \* usernames of the promote requests that were answered 200
  last,      \* the step that was taken last, with its response
  inflight,  \* client -> {} or {[username, password]}: a signup request whose
             \* body is being received and whose handler has not run yet
  seedLogin  \* a login as 'admin' with the seeded password was answered 200

vars == <<users, polluted, sessions, clock, up, dir, stored, promoted, last,
          inflight, seedLogin>>

\* ------------------------------------------------------ JavaScript values
\* !v for the values a body field takes here.
Falsy(v) == v \in {"", undefined}

\* Object.prototype.role, which promote('__proto__') sets.
ObjectPrototypeRole == IF "__proto__" \in polluted THEN "admin" ELSE undefined

\* users[k]: the own property, else what the prototype chain yields; a set
\* with no element stands for `undefined`.
UsersGet(k) ==
  IF k \in DOMAIN users THEN {users[k]}
  ELSE IF k \in InheritedKeys
       THEN {[password |-> undefined,
              role |-> IF k \in polluted THEN "admin" ELSE ObjectPrototypeRole]}
       ELSE {}

\* req.session.user.role as a request sees it: the store keeps the session
\* as JSON, which drops a role of `undefined`, so that the property is then
\* looked up on Object.prototype.
SessionRole(b) == IF b.role = undefined THEN ObjectPrototypeRole ELSE b.role

\* f with key k removed / set.
Without(f, k) == [x \in DOMAIN f \ {k} |-> f[x]]
With(f, k, v) == [x \in DOMAIN f \cup {k} |-> IF x = k THEN v ELSE f[x]]

\* ------------------------------------------------------------- responses
NoFile == <<>>
Idle == [pc |-> "idle", file |-> NoFile, content |-> Empty]

\* '/uploads/' + name
UrlPath(name) == <<"/uploads/", name>>

Resp(op, c, status) ==
  [op |-> op, client |-> c, status |-> status, username |-> undefined,
   password |-> undefined, file |-> NoFile, body |-> Empty, uploads |-> <<>>]

\* ------------------------------------------------------------------ init
Init ==
  /\ users = [u \in {"admin"} |-> [password |-> "adminpass", role |-> "admin"]]
  /\ polluted = {}
  /\ sessions = [c \in Clients |-> {}]
  /\ clock = 0
  /\ up = [c \in Clients |-> Idle]
  /\ dir = [n \in {OldFile} |-> "v1"]
  /\ stored = {}
  /\ promoted = {}
  /\ last = Resp("listen", "c1", 0)
  /\ inflight = [c \in Clients |-> {}]
  /\ seedLogin = FALSE

\* ------------------------------------------------------------------ gates
authRequired(c) == sessions[c] # {}

\* adminRequired testing only that a user is logged in, as authRequired does.
adminRequired_AnySession(c) == sessions[c] # {}

adminRequired(c) == \E b \in sessions[c] : SessionRole(b) = "admin"

\* --------------------------------------------------------------- handlers
\* Signup without the `if (users[username])` check.
Signup_NoConflict(c, username, password) ==
  LET r == [Resp("signup", c, 0) EXCEPT !.username = username, !.password = password]
  IN
  /\ UNCHANGED <<polluted, clock, up, dir, stored, promoted>>
  /\ IF Falsy(username) \/ Falsy(password)
     THEN /\ last' = [r EXCEPT !.status = 400]
          /\ UNCHANGED <<users, sessions>>
     ELSE /\ users' = With(users, username, [password |-> password, role |-> "user"])
          /\ sessions' = [sessions EXCEPT ![c] = {[username |-> username, role |-> "user"]}]
          /\ last' = [r EXCEPT !.status = 200]

\* Signup testing for an existing user before testing for missing fields.
Signup_ConflictFirst(c, username, password) ==
  LET r == [Resp("signup", c, 0) EXCEPT !.username = username, !.password = password]
  IN
  /\ UNCHANGED <<polluted, clock, up, dir, stored, promoted>>
  /\ IF UsersGet(username) # {}
     THEN /\ last' = [r EXCEPT !.status = 409]
          /\ UNCHANGED <<users, sessions>>
     ELSE IF Falsy(username) \/ Falsy(password)
     THEN /\ last' = [r EXCEPT !.status = 400]
          /\ UNCHANGED <<users, sessions>>
     ELSE /\ users' = With(users, username, [password |-> password, role |-> "user"])
          /\ sessions' = [sessions EXCEPT ![c] = {[username |-> username, role |-> "user"]}]
          /\ last' = [r EXCEPT !.status = 200]

Signup(c, username, password) ==
  LET r == [Resp("signup", c, 0) EXCEPT !.username = username, !.password = password]
  IN
  /\ UNCHANGED <<polluted, clock, up, dir, stored, promoted>>
  /\ IF Falsy(username) \/ Falsy(password)
     THEN /\ last' = [r EXCEPT !.status = 400]
          /\ UNCHANGED <<users, sessions>>
     ELSE IF UsersGet(username) # {}
     THEN /\ last' = [r EXCEPT !.status = 409]
          /\ UNCHANGED <<users, sessions>>
     ELSE /\ users' = With(users, username, [password |-> password, role |-> "user"])
          /\ sessions' = [sessions EXCEPT ![c] = {[username |-> username, role |-> "user"]}]
          /\ last' = [r EXCEPT !.status = 200]

\* Login without the password comparison.
Login_AnyPassword(c, username, password) ==
  LET r == [Resp("login", c, 0) EXCEPT !.username = username, !.password = password]
      u == UsersGet(username)
  IN
  /\ UNCHANGED <<users, polluted, clock, up, dir, stored, promoted>>
  /\ IF u = {}
     THEN /\ last' = [r EXCEPT !.status = 401]
          /\ UNCHANGED sessions
     ELSE /\ sessions' = [sessions EXCEPT
                            ![c] = {[username |-> username, role |-> x.role] : x \in u}]
          /\ last' = [r EXCEPT !.status = 200]

\* Login binding role 'user', as signup does, instead of the stored role.
Login_RoleUser(c, username, password) ==
  LET r == [Resp("login", c, 0) EXCEPT !.username = username, !.password = password]
      u == UsersGet(username)
  IN
  /\ UNCHANGED <<users, polluted, clock, up, dir, stored, promoted>>
  /\ IF u = {} \/ \E x \in u : x.password # password
     THEN /\ last' = [r EXCEPT !.status = 401]
          /\ UNCHANGED sessions
     ELSE /\ sessions' = [sessions EXCEPT
                            ![c] = {[username |-> username, role |-> "user"]}]
          /\ last' = [r EXCEPT !.status = 200]

\* Login binding role 'admin' whatever the stored role.
Login_RoleAdmin(c, username, password) ==
  LET r == [Resp("login", c, 0) EXCEPT !.username = username, !.password = password]
      u == UsersGet(username)
  IN
  /\ UNCHANGED <<users, polluted, clock, up, dir, stored, promoted>>
  /\ IF u = {} \/ \E x \in u : x.password # password
     THEN /\ last' = [r EXCEPT !.status = 401]
          /\ UNCHANGED sessions
     ELSE /\ sessions' = [sessions EXCEPT
                            ![c] = {[username |-> username, role |-> "admin"]}]
          /\ last' = [r EXCEPT !.status = 200]

\* Login dropping the caller's binding when the credentials are refused.
Login_ClearsOnFail(c, username, password) ==
  LET r == [Resp("login", c, 0) EXCEPT !.username = username, !.password = password]
      u == UsersGet(username)
  IN
  /\ UNCHANGED <<users, polluted, clock, up, dir, stored, promoted>>
  /\ IF u = {} \/ \E x \in u : x.password # password
     THEN /\ last' = [r EXCEPT !.status = 401]
          /\ sessions' = [sessions EXCEPT ![c] = {}]
     ELSE /\ sessions' = [sessions EXCEPT
                            ![c] = {[username |-> username, role |-> x.role] : x \in u}]
          /\ last' = [r EXCEPT !.status = 200]

Login(c, username, password) ==
  LET r == [Resp("login", c, 0) EXCEPT !.username = username, !.password = password]
      u == UsersGet(username)
  IN
  /\ UNCHANGED <<users, polluted, clock, up, dir, stored, promoted>>
  /\ IF u = {} \/ \E x \in u : x.password # password
     THEN /\ last' = [r EXCEPT !.status = 401]
          /\ UNCHANGED sessions
     ELSE /\ sessions' = [sessions EXCEPT
                            ![c] = {[username |-> username, role |-> x.role] : x \in u}]
          /\ last' = [r EXCEPT !.status = 200]

\* Logout answering without destroying the session.
Logout_KeepsSession(c) ==
  /\ last' = Resp("logout", c, 200)
  /\ UNCHANGED <<users, polluted, sessions, clock, up, dir, stored, promoted>>

Logout(c) ==
  /\ sessions' = [sessions EXCEPT ![c] = {}]
  /\ last' = Resp("logout", c, 200)
  /\ UNCHANGED <<users, polluted, clock, up, dir, stored, promoted>>

\* ----------------------------------------------------------------- upload
\* file.originalname.replace(/\s+/g, '_')
RECURSIVE SkipWs(_)
SkipWs(s) == IF s # <<>> /\ Head(s) = " " THEN SkipWs(Tail(s)) ELSE s

RECURSIVE Sanitize(_)
Sanitize(s) ==
  IF s = <<>> THEN <<>>
  ELSE IF Head(s) = " " THEN <<"_">> \o Sanitize(SkipWs(s))
  ELSE <<Head(s)>> \o Sanitize(Tail(s))

\* storage.filename: Date.now() + '-' + sanitized name.  The pair stands for
\* the concatenation, which is injective because the first part is a number.
filename(now, originalname) == <<now, Sanitize(originalname)>>

\* The gate, then multer starting to parse the body: without a 'video' part
\* the handler runs at once with no req.file; with one, the stored name is
\* generated and the file is opened for writing (created or truncated).
UploadStart(c, hasFile, originalname, content) ==
  /\ up[c].pc = "idle"
  /\ UNCHANGED <<users, polluted, sessions, clock, stored, promoted>>
  /\ IF ~authRequired(c)
     THEN /\ last' = Resp("upload", c, 401)
          /\ UNCHANGED <<up, dir>>
     ELSE IF ~hasFile
     THEN /\ last' = Resp("upload", c, 400)
          /\ UNCHANGED <<up, dir>>
     ELSE LET f == filename(clock, originalname) IN
          /\ up' = [up EXCEPT ![c] = [pc |-> "open", file |-> f, content |-> content]]
          /\ dir' = With(dir, f, Empty)
          /\ last' = Resp("upload-open", c, 0)

\* The file stream is piped into the open file: all of it, or what fits
\* under limits.fileSize, at which point multer aborts the request.
UploadWrite(c) ==
  /\ up[c].pc = "open"
  /\ dir' = With(dir, up[c].file, up[c].content)
  /\ up' = [up EXCEPT ![c].pc = IF Size(up[c].content) > fileSize
                                 THEN "limit" ELSE "written"]
  /\ last' = Resp("upload-write", c, 0)
  /\ UNCHANGED <<users, polluted, sessions, clock, stored, promoted>>

\* multer removes the file of the aborted request (fs.unlink of its path)
\* and passes LIMIT_FILE_SIZE to Express, whose default handler answers 500.
UploadAbort(c) ==
  /\ up[c].pc = "limit"
  /\ dir' = Without(dir, up[c].file)
  /\ up' = [up EXCEPT ![c] = Idle]
  /\ last' = Resp("upload", c, 500)
  /\ UNCHANGED <<users, polluted, sessions, clock, stored, promoted>>

\* The route handler: req.file is set, the public path is returned.
UploadRespond(c) ==
  /\ up[c].pc = "written"
  /\ up' = [up EXCEPT ![c] = Idle]
  /\ stored' = stored \cup {UrlPath(up[c].file)}
  /\ last' = [Resp("upload", c, 200) EXCEPT !.file = UrlPath(up[c].file),
                                            !.body = up[c].content]
  /\ UNCHANGED <<users, polluted, sessions, clock, dir, promoted>>

\* fs.readdir: every entry of the directory once, in an order of its own.
RECURSIVE readdir(_)
readdir(names) ==
  IF names = {} THEN <<>>
  ELSE LET n == CHOOSE x \in names : TRUE IN <<n>> \o readdir(names \ {n})

ListUploads(c) ==
  /\ UNCHANGED <<users, polluted, sessions, clock, up, dir, stored, promoted>>
  /\ IF ~adminRequired(c)
     THEN last' = Resp("list", c, 403)
     ELSE LET files == readdir(DOMAIN dir) IN
          last' = [Resp("list", c, 200) EXCEPT
                     !.uploads = [i \in DOMAIN files |->
                                    [file |-> UrlPath(files[i]), name |-> files[i]]]]

\* express.static(uploadsDir) mounted at '/uploads', without a gate.
Fetch(c, path) ==
  /\ UNCHANGED <<users, polluted, sessions, clock, up, dir, stored, promoted>>
  /\ IF \E f \in DOMAIN dir : UrlPath(f) = path
     THEN LET f == CHOOSE f \in DOMAIN dir : UrlPath(f) = path IN
          last' = [Resp("fetch", c, 200) EXCEPT !.file = path, !.body = dir[f]]
     ELSE last' = [Resp("fetch", c, 404) EXCEPT !.file = path]

\* Promote answering 200 without the assignment to role.
Promote_NoRoleChange(c, username) ==
  LET r == [Resp("promote", c, 0) EXCEPT !.username = username] IN
  /\ UNCHANGED <<sessions, clock, up, dir, stored, users, polluted>>
  /\ IF ~adminRequired(c)
     THEN /\ last' = [r EXCEPT !.status = 403]
          /\ UNCHANGED promoted
     ELSE IF UsersGet(username) = {}
     THEN /\ last' = [r EXCEPT !.status = 404]
          /\ UNCHANGED promoted
     ELSE /\ promoted' = promoted \cup {username}
          /\ last' = [r EXCEPT !.status = 200]

\* Promote replacing the record by { role: 'admin' }, which loses the password.
Promote_ReplacesRecord(c, username) ==
  LET r == [Resp("promote", c, 0) EXCEPT !.username = username] IN
  /\ UNCHANGED <<sessions, clock, up, dir, stored>>
  /\ IF ~adminRequired(c)
     THEN /\ last' = [r EXCEPT !.status = 403]
          /\ UNCHANGED <<users, polluted, promoted>>
     ELSE IF UsersGet(username) = {}
     THEN /\ last' = [r EXCEPT !.status = 404]
          /\ UNCHANGED <<users, polluted, promoted>>
     ELSE /\ IF username \in DOMAIN users
             THEN /\ users' = [users EXCEPT
                                 ![username] = [password |-> undefined, role |-> "admin"]]
                  /\ UNCHANGED polluted
             ELSE /\ polluted' = polluted \cup {username}
                  /\ UNCHANGED users
          /\ promoted' = promoted \cup {username}
          /\ last' = [r EXCEPT !.status = 200]

Promote(c, username) ==
  LET r == [Resp("promote", c, 0) EXCEPT !.username = username] IN
  /\ UNCHANGED <<sessions, clock, up, dir, stored>>
  /\ IF ~adminRequired(c)
     THEN /\ last' = [r EXCEPT !.status = 403]
          /\ UNCHANGED <<users, polluted, promoted>>
     ELSE IF UsersGet(username) = {}
     THEN /\ last' = [r EXCEPT !.status = 404]
          /\ UNCHANGED <<users, polluted, promoted>>
     ELSE /\ IF username \in DOMAIN users
             THEN /\ users' = [users EXCEPT ![username].role = "admin"]
                  /\ UNCHANGED polluted
             ELSE /\ polluted' = polluted \cup {username}
                  /\ UNCHANGED users
          /\ promoted' = promoted \cup {username}
          /\ last' = [r EXCEPT !.status = 200]

\* Time passes.
Tick ==
  /\ clock < MaxTime
  /\ clock' = clock + 1
  /\ last' = Resp("tick", "c1", 0)
  /\ UNCHANGED <<users, polluted, sessions, up, dir, stored, promoted>>

\* ------------------------------------------------------- specifications
\* seedLogin records what the step just taken shows in `last`.
SeedLoginRecorded ==
  seedLogin' = (\/ seedLogin
                \/ /\ last'.op = "login" /\ last'.status = 200
                   /\ last'.username = "admin" /\ last'.password = "adminpass")

\* A request that is handled in the step in which it arrives.
Handled == UNCHANGED inflight /\ SeedLoginRecorded

\* The account and session operations, over every kind of request body; the
\* upload requests are those without a 'video' part, which end at the gate or
\* in the handler's 400.
Next ==
  \/ \E c \in Clients, u \in Usernames, p \in Passwords : Signup(c, u, p) /\ Handled
  \/ \E c \in Clients, u \in Usernames, p \in Passwords : Login(c, u, p) /\ Handled
  \/ \E c \in Clients : Logout(c) /\ Handled
  \/ \E c \in Clients : ListUploads(c) /\ Handled
  \/ \E c \in Clients, u \in Usernames : Promote(c, u) /\ Handled
  \/ \E c \in Clients, n \in OriginalNames, b \in Contents :
        UploadStart(c, FALSE, n, b) /\ Handled

Spec == Init /\ [][Next]_vars

\* The upload sink with requests in flight at the same time; the accounts
\* are the seeded administrator and one ordinary user.
UploadNext ==
  \/ \E c \in Clients : Signup(c, "alice", "pw1") /\ Handled
  \/ \E c \in Clients : Login(c, "admin", "adminpass") /\ Handled
  \/ \E c \in Clients : Logout(c) /\ Handled
  \/ \E c \in Clients, h \in BOOLEAN, n \in OriginalNames, b \in Contents :
        UploadStart(c, h, n, b) /\ Handled
  \/ \E c \in Clients : UploadWrite(c) /\ Handled
  \/ \E c \in Clients : UploadAbort(c) /\ Handled
  \/ \E c \in Clients : UploadRespond(c) /\ Handled
  \/ \E c \in Clients : ListUploads(c) /\ Handled
  \/ \E c \in Clients, path \in stored \cup {UrlPath(f) : f \in DOMAIN dir} :
        Fetch(c, path) /\ Handled
  \/ Tick /\ Handled

UploadSpec == Init /\ [][UploadNext]_vars

\* Signup requests in flight at the same time: express.json reads the body
\* of a request while other requests arrive and are handled; the route
\* handler then runs to its end in one callback.
SignupArrive(c, username, password) ==
  /\ inflight[c] = {}
  /\ inflight' = [inflight EXCEPT ![c] = {[username |-> username, password |-> password]}]
  /\ last' = Resp("signup-body", c, 0)
  /\ UNCHANGED <<users, polluted, sessions, clock, up, dir, stored, promoted, seedLogin>>

SignupHandle(c) ==
  /\ \E r \in inflight[c] : Signup(c, r.username, r.password)
  /\ inflight' = [inflight EXCEPT ![c] = {}]
  /\ UNCHANGED seedLogin

RaceNext ==
  \/ \E c \in Clients, u \in Usernames, p \in Passwords : SignupArrive(c, u, p)
  \/ \E c \in Clients : SignupHandle(c)
  \/ \E c \in Clients : Logout(c) /\ Handled

RaceSpec == Init /\ [][RaceNext]_vars

\* ------------------------------------------------------------ properties
\* The binding of client c is that of an ordinary user, or there is none.
NotAdminBound(c) == sessions[c] = {} \/ \E b \in sessions[c] : b.role = "user"

\* C1: GET /api/uploads and POST /api/promote from a client whose session
\* is bound with role 'user', or is not bound at all, are answered 403 (not
\* 401, not 200) and leave the users map and the upload directory as they
\* were.
C1_NonAdminForbidden ==
  [][\A c \in Clients :
       (last'.op \in {"list", "promote"} /\ last'.client = c /\ NotAdminBound(c))
       => (last'.status = 403 /\ users' = users /\ dir' = dir)]_vars

C1_Witness ==
  /\ last.op = "promote"
  /\ last.status = 403
  /\ last.username = "alice"
  /\ \E b \in sessions[last.client] : b.role = "user"
  /\ dir # <<>>

\* C2: for a user present in the users map, a login with a password other
\* than the stored one (a missing one included) is answered 401 and leaves
\* the sessions alone; a login with the stored password is answered 200 and
\* binds the caller's session to the username and the role stored then.
C2_LoginChecksPassword ==
  [][\A c \in Clients, u \in DOMAIN users :
       (last'.op = "login" /\ last'.client = c /\ last'.username = u)
       => IF last'.password = users[u].password
          THEN /\ last'.status = 200
               /\ sessions'[c] = {[username |-> u, role |-> users[u].role]}
          ELSE /\ last'.status = 401
               /\ sessions' = sessions]_vars

C2_Witness ==
  /\ last.op = "login"
  /\ last.status = 200
  /\ last.username = "alice"
  /\ users["alice"].role = "admin"
  /\ sessions[last.client] = {[username |-> "alice", role |-> "admin"]}

\* C3: a login under a username that was neither seeded nor signed up is
\* answered 401, whatever the password (a missing one included), and
\* establishes no session.
C3_AbsentUserLoginFails ==
  [][\A c \in Clients :
       (last'.op = "login" /\ last'.client = c /\ last'.username \notin DOMAIN users)
       => (last'.status = 401 /\ sessions' = sessions)]_vars

\* C4: a signup under a username that exists (seeded or signed up), with a
\* non-empty password, is answered 409, leaves the user's record as it was
\* and does not change the caller's session binding.
C4_DuplicateSignupConflict ==
  [][\A c \in Clients :
       (/\ last'.op = "signup" /\ last'.client = c
        /\ last'.username \in DOMAIN users /\ ~Falsy(last'.password))
       => (last'.status = 409 /\ users' = users /\ sessions'[c] = sessions[c])]_vars

C4_Witness ==
  /\ last.op = "signup"
  /\ last.status = 409
  /\ last.username = "alice"
  /\ last.password # users["alice"].password
  /\ sessions[last.client] # {[username |-> "alice", role |-> "user"]}

\* C5: once a promote of a username was answered 200, every successful
\* login under that username binds a session with role 'admin', and the
\* admin-only operations of such a session are not answered 403.
C5_PromotionShowsAtLogin ==
  /\ (last.op = "login" /\ last.status = 200 /\ last.username \in promoted)
     => /\ \A b \in sessions[last.client] : b.role = "admin"
        /\ adminRequired(last.client)
  /\ (/\ last.op \in {"list", "promote"}
      /\ \E b \in sessions[last.client] : b.username \in promoted /\ b.role = "admin")
     => last.status # 403

C5_Witness ==
  /\ last.op = "login"
  /\ last.status = 200
  /\ last.username = "alice"
  /\ "alice" \in promoted

\* C6: a promote, from an admin session, of a username that was neither
\* seeded nor signed up is answered 404 and has no effect: no record is
\* created, no role and no session changes.
C6_AbsentUserPromoteFails ==
  [][\A c \in Clients :
       (/\ last'.op = "promote" /\ last'.client = c /\ adminRequired(c)
        /\ last'.username \notin DOMAIN users)
       => (/\ last'.status = 404
           /\ users' = users /\ polluted' = polluted /\ sessions' = sessions)]_vars

\* C7: an upload from a client without a session binding is answered 401
\* and leaves the upload directory as it was; an upload answered 200 returns
\* the path of an entry of the upload directory whose content is the
\* uploaded content, and a fetch of a returned path succeeds for any caller.
C7_UploadGatedAndStored ==
  [][/\ \A c \in Clients :
          (/\ last'.op = "upload" /\ last'.client = c
           /\ up[c].pc = "idle" /\ sessions[c] = {})
          => (last'.status = 401 /\ dir' = dir)
     /\ (last'.op = "upload" /\ last'.status = 200)
        => \E f \in DOMAIN dir' : UrlPath(f) = last'.file /\ dir'[f] = last'.body
     /\ (last'.op = "fetch" /\ last'.file \in stored)
        => last'.status = 200]_vars

\* C8: a listing answered 200 holds, for every upload answered 200 before,
\* exactly one entry whose file is the path returned to that upload.
C8_ListHasEveryUploadOnce ==
  (last.op = "list" /\ last.status = 200)
  => \A path \in stored :
       Cardinality({i \in DOMAIN last.uploads : last.uploads[i].file = path}) = 1

\* C9: the stored name generated for an upload differs from the stored name
\* of every other upload, finished or in flight.
C9_StoredNamesUnique ==
  [][\A c \in Clients :
       (last'.op = "upload-open" /\ last'.client = c)
       => up'[c].file \notin DOMAIN dir]_vars

\* C10 as stated: the seeded administrator record stays as seeded, its
\* login yields an admin session, and every signup as 'admin' is answered
\* 409.
C10_AdminSignupAlways409 ==
  /\ "admin" \in DOMAIN users
  /\ users["admin"] = [password |-> "adminpass", role |-> "admin"]
  /\ (last.op = "login" /\ last.username = "admin" /\ last.password = "adminpass")
     => /\ last.status = 200
        /\ sessions[last.client] = {[username |-> "admin", role |-> "admin"]}
  /\ (last.op = "signup" /\ last.username = "admin") => last.status = 409

\* C10, amended: the seeded administrator record stays as seeded, its
\* login yields an admin session, and a signup as 'admin' is answered 409
\* when it carries a non-empty password and 400 when it does not.
C10_SeededAdminStays ==
  /\ "admin" \in DOMAIN users
  /\ users["admin"] = [password |-> "adminpass", role |-> "admin"]
  /\ (last.op = "login" /\ last.username = "admin" /\ last.password = "adminpass")
     => /\ last.status = 200
        /\ sessions[last.client] = {[username |-> "admin", role |-> "admin"]}
  /\ (last.op = "signup" /\ last.username = "admin")
     => last.status = IF Falsy(last.password) THEN 400 ELSE 409

C10_Witness ==
  /\ last.op = "signup"
  /\ last.username = "admin"
  /\ last.status = 409
  /\ \E c \in Clients : sessions[c] = {[username |-> "admin", role |-> "admin"]}

\* C11: a logout is answered 200 with or without a binding, removes the
\* caller's binding and touches neither the users map nor another caller's
\* session; a second logout in a row changes nothing; and while the caller
\* has no binding, which lasts until the caller's own successful login or
\* signup, the caller's uploads are answered 401 and its admin-only requests
\* 403.
C11_LogoutUnbinds ==
  [][\A c \in Clients :
       /\ (last'.op = "logout" /\ last'.client = c)
          => /\ last'.status = 200
             /\ sessions' = [sessions EXCEPT ![c] = {}]
             /\ users' = users /\ polluted' = polluted /\ dir' = dir
       /\ (last'.op = "logout" /\ last'.client = c /\ last.op = "logout" /\ last.client = c)
          => UNCHANGED vars
       /\ (sessions[c] = {} /\ last'.client = c /\ last'.op = "upload" /\ up[c].pc = "idle")
          => last'.status = 401
       /\ (sessions[c] = {} /\ last'.client = c /\ last'.op \in {"list", "promote"})
          => last'.status = 403
       /\ (sessions[c] = {} /\ sessions'[c] # {})
          => (last'.client = c /\ last'.op \in {"login", "signup"} /\ last'.status = 200)]_vars

C11_Witness ==
  /\ last.op = "logout"
  /\ last.status = 200
  /\ sessions[last.client] = {}
  /\ \E c \in Clients : \E b \in sessions[c] : b.username = "alice"
  /\ "alice" \in promoted

\* C12: the username of every session binding is a key of the users map.
C12_SessionsReferenceUsers ==
  \A c \in Clients : \A b \in sessions[c] : b.username \in DOMAIN users

\* C13: across every step no username leaves the users map and no stored
\* password changes; a stored role changes only from 'user' to 'admin' and
\* only in a promote of that username answered 200; a record is added only
\* by a signup answered 200; login, logout, upload, list and fetch steps and
\* every request not answered 200 leave the users map as it was.
C13_UsersChangeOnlyByPromote ==
  [][/\ DOMAIN users \subseteq DOMAIN users'
     /\ \A u \in DOMAIN users :
          /\ users'[u].password = users[u].password
          /\ users'[u].role # users[u].role
             => /\ users[u].role = "user" /\ users'[u].role = "admin"
                /\ last'.op = "promote" /\ last'.status = 200 /\ last'.username = u
     /\ DOMAIN users' # DOMAIN users
        => /\ last'.op = "signup" /\ last'.status = 200
           /\ DOMAIN users' = DOMAIN users \cup {last'.username}
     /\ (last'.op \notin {"signup", "promote"} \/ last'.status # 200)
        => users' = users]_vars

C13_Witness ==
  /\ last.op = "promote"
  /\ last.status = 200
  /\ last.username = "alice"
  /\ users["alice"] = [password |-> "pw1", role |-> "admin"]

\* C14 as stated: when a signup was just answered 200 and another signup
\* for the same username is still in flight, a step exists in which that one
\* is answered 200 too and its password replaces the stored one.
C14_SecondSignupCanWin ==
  \A c \in Clients : \A r \in inflight[c] :
    (/\ last.op = "signup" /\ last.status = 200 /\ last.client # c
     /\ last.username = r.username /\ ~Falsy(r.password))
    => ENABLED (/\ SignupHandle(c)
                /\ last'.status = 200
                /\ users'[r.username].password = r.password)

\* C14, amended: signups for one username are serialised.  A signup is
\* answered 200 only when the username is absent as its handler runs, so of
\* two requests in flight at once the one handled first creates the record
\* and the other is answered 409 (400 when its password is empty or
\* missing); a signup not answered 200 writes nothing.
C14_SignupsSerialised ==
  [][\A c \in Clients : \A r \in inflight[c] :
       (last'.op = "signup" /\ last'.client = c)
       => /\ last'.status = 200 => r.username \notin DOMAIN users
          /\ (\E d \in Clients \ {c} :
                /\ last.op = "signup" /\ last.client = d /\ last.status = 200
                /\ last.username = r.username)
             => /\ last'.status = IF Falsy(r.password) THEN 400 ELSE 409
                /\ users' = users
          /\ last'.status # 200 => users' = users]_vars

C14_Witness ==
  /\ last.op = "signup"
  /\ last.status = 200
  /\ last.username = "alice"
  /\ \E c \in Clients \ {last.client} : \E r \in inflight[c] :
       /\ r.username = "alice"
       /\ ~Falsy(r.password)
       /\ r.password # users["alice"].password

\* C15: a signup whose username or password is empty or absent is answered
\* 400, also when the username exists, creates no user and leaves the
\* sessions as they were.
C15_MissingFieldRejected ==
  [][(last'.op = "signup" /\ (Falsy(last'.username) \/ Falsy(last'.password)))
     => (last'.status = 400 /\ users' = users /\ sessions' = sessions)]_vars

C15_Witness ==
  /\ last.op = "signup"
  /\ last.status = 400
  /\ last.username = "alice"
  /\ "alice" \in DOMAIN users
  /\ last.password = undefined

\* C16: an upload whose file stream exceeds the ceiling is answered 413
\* (PayloadTooLarge), and no file of that upload remains in the directory.
C16_OversizeIs413 ==
  [][\A c \in Clients :
       (up[c].pc = "limit" /\ last'.op = "upload" /\ last'.client = c)
       => (last'.status = 413 /\ up[c].file \notin DOMAIN dir')]_vars

\* C17: a stored role of 'admin' belongs to the seeded 'admin' or to the
\* target of a promote answered 200; such a promote comes from a session
\* whose role is 'admin' as the request is handled; a signup creates role
\* 'user'; and as long as no login as 'admin' with the seeded password was
\* answered 200, no session has role 'admin'.
C17_AdminOnlyFromAdmin ==
  [][/\ \A u \in DOMAIN users' :
          users'[u].role = "admin" => (u = "admin" \/ u \in promoted')
     /\ promoted' # promoted
        => \E b \in sessions[last'.client] : SessionRole(b) = "admin"
     /\ (last'.op = "signup" /\ last'.status = 200)
        => /\ users'[last'.username].role = "user"
           /\ sessions'[last'.client] = {[username |-> last'.username, role |-> "user"]}
     /\ ~seedLogin'
        => /\ promoted' = {} /\ polluted' = {}
           /\ \A c \in Clients : \A b \in sessions'[c] : b.role # "admin"]_vars

C17_Witness ==
  /\ "alice" \in promoted
  /\ users["alice"].role = "admin"
  /\ last.op = "promote"
  /\ last.status = 200
  /\ \E b \in sessions[last.client] : b.username = "alice" /\ b.role = "admin"

\* C18: a session binding with role 'admin' names a username whose
\* users[username].role is 'admin'.
C18_SessionRoleWithinUserRole ==
  \A c \in Clients : \A b \in sessions[c] :
    b.role = "admin"
    => /\ UsersGet(b.username) # {}
       /\ \A x \in UsersGet(b.username) : x.role = "admin"

C18_Witness ==
  /\ \E c \in Clients : sessions[c] = {[username |-> "alice", role |-> "admin"]}
  /\ \E c \in Clients : sessions[c] = {[username |-> "alice", role |-> "user"]}
  /\ users["alice"].role = "admin"

\* C19: a promote answered 200 leaves every session binding as it was, and
\* a session whose admin-only requests were answered 403 before it has them
\* answered 403 after it.
C19_PromoteLeavesSessions ==
  [][(last'.op = "promote" /\ last'.status = 200)
     => /\ sessions' = sessions
        /\ \A c \in Clients : ~adminRequired(c) => ~adminRequired(c)']_vars

\* C20: the binding of a client changes only in that client's own login or
\* signup answered 200, which replaces it by the new {username, role}, or in
\* its own logout; a login or signup not answered 200 changes no binding.
C20_BindingChangesByOwnRequest ==
  [][\A c \in Clients :
       /\ sessions'[c] # sessions[c]
          => /\ last'.client = c
             /\ \/ last'.op \in {"login", "signup"} /\ last'.status = 200
                \/ last'.op = "logout"
       /\ (last'.client = c /\ last'.op \in {"login", "signup"} /\ last'.status # 200)
          => sessions' = sessions
       /\ (last'.client = c /\ last'.op = "signup" /\ last'.status = 200)
          => sessions'[c] = {[username |-> last'.username, role |-> "user"]}
       /\ (last'.client = c /\ last'.op = "login" /\ last'.status = 200)
          => sessions'[c] = {[username |-> last'.username, role |-> x.role] :
                               x \in UsersGet(last'.username)}]_vars

C20_Witness ==
  /\ last.op = "login"
  /\ last.status = 401
  /\ last.username = "admin"
  /\ sessions[last.client] = {[username |-> "alice", role |-> "user"]}
  /\ \E c \in Clients : sessions[c] = {[username |-> "admin", role |-> "admin"]}
====
